---- MODULE Spec2Model ----
(***************************************************************************)
(* The double-buffered simulation/render loop of WhateverWebGPU.           *)
(*                                                                         *)
(* Two entry-point variants of the program have a compute pass:            *)
(*   part_000  the resizable variant (classes UIController, Grid, Buffers, *)
(*             Simulation, Renderer, Engine; GRID_SIZE is mutable)         *)
(*   part_001  the fixed-size variant (free functions and a Renderer that  *)
(*             holds the bind groups itself)                               *)
(* The variable `variant` says which of the two programs is running; it is *)
(* chosen in Init and never changes.                                       *)
(*                                                                         *)
(* Every call of init() is a "session": the record of that call's locals   *)
(* (grid, state buffers, the Simulation and the Renderer it constructs).   *)
(* Timestamps are integers, in milliseconds.  A cell array is represented  *)
(* by its length and by the identity of the random draw that filled it.    *)
(***************************************************************************)
EXTENDS Integers, Sequences, FiniteSets, TLC

(***************************************************************************)
(* Bounds of the model.                                                    *)
(***************************************************************************)
MaxFrames == 3
\* user inputs (grid-size changes, reset clicks, interval-slider moves) in a run
MaxInputs == 2
\* largest value of the grid-size slider where every value is tried
MaxGridSize == 17

(***************************************************************************)
(* Program constants.                                                      *)
(***************************************************************************)
InitialGridSize == 64
InitialInterval == 100
FpsWindowMs == 1000
\* the divisor of the dispatch: cells per workgroup along one axis
WorkgroupSize == 8
\* the delay of the grid-size slider's setTimeout
DebounceMs == 150

(***************************************************************************)
(* Input sets.                                                             *)
(***************************************************************************)
\* values of the grid-size slider
Sizes == {12}
\* values of the grid-size slider where its input events are modelled one by one
SliderSizes == {12, 20}
\* what getDevice and getCanvas throw or reject with
StartErrors == {"WebGPU not supported", "No GPUAdapter found",
                "requestDevice rejected", "Canvas element not found"}
\* what the awaited pipeline creations of init reject with
InitErrors == {"pipeline creation failed"}
\* values of the compute-interval slider
Intervals == {50}
\* time between two animation frames
FrameDeltas == {60, 500}
\* content of a buffer that createBuffer has allocated and nothing has written
Zero == 0
\* content of a buffer the simulation kernel has written
Kernel == -1
\* every other content is the number of the Math.random fill that produced it:
\* the n-th random array of the run is array n

VARIABLES
    variant,              \* "part_000" or "part_001"
    started,              \* Engine.start() / init() has run its synchronous part
    GRID_SIZE,            \* module-level GRID_SIZE
    COMPUTE_MS_INTERVAL,  \* module-level COMPUTE_MS_INTERVAL
    now,                  \* timestamp of the latest animation frame
    sessions,             \* one record per init() call, in call order
    simulation,           \* Engine.simulation: a session index, 0 = undefined
    renderer,             \* Engine.renderer:   a session index, 0 = undefined
    animationFrameId,     \* Engine.animationFrameId, 0 = null
    rafQueue,             \* pending requestAnimationFrame callbacks
    nextRafId,            \* next handle requestAnimationFrame returns
    drawCount,            \* random arrays drawn so far
    uncaught,             \* a handler has thrown
    frames,               \* animation frames so far
    inputs,               \* user inputs so far
    startPromise,         \* the promise the entry point returned: "none" before
                          \* the call, then "fulfilled" or "rejected"
    reported,             \* errors the top-level catch handler has logged
    unhandled,            \* rejections of promises nothing awaits or catches
    failed,               \* sessions whose init() has rejected
    timers,               \* pending setTimeout callbacks of the grid-size slider
    timeout,              \* `timeout` of onGridSizeChange, 0 = undefined
    nextTimerId,          \* next handle setTimeout returns
    inputLog,             \* input events of the grid-size slider: time and value
    callLog               \* calls of the grid-size callback: time and argument

vars == <<variant, started, GRID_SIZE, COMPUTE_MS_INTERVAL, now, sessions,
          simulation, renderer, animationFrameId, rafQueue, nextRafId,
          drawCount, uncaught, frames, inputs,
          startPromise, reported, unhandled, failed,
          timers, timeout, nextTimerId, inputLog, callLog>>

debounceVars == <<timers, timeout, nextTimerId, inputLog, callLog>>

errorVars == <<startPromise, reported, unhandled, failed>>

(***************************************************************************)
(* GPU buffers.                                                            *)
(***************************************************************************)
\* device.createBuffer for `cells` u32 cells: zero-filled
createBuffer(cells) == [cap |-> cells, data |-> Zero, written |-> 0]

\* a Uint32Array of size*size cells filled by Math.random
randomCells(size, draw) == [len |-> size * size, draw |-> draw]

\* device.queue.writeBuffer(buffer, 0, data): a write that does not fit the
\* buffer is a validation error and writes nothing
writeBuffer(buffer, data) ==
    IF data.len > buffer.cap
    THEN buffer
    ELSE [buffer EXCEPT !.data = data.draw, !.written = data.len]

createStateBuffersSecondDraw(size, draw) ==
    LET a == createBuffer(size * size)
        b == createBuffer(size * size)
    IN  <<writeBuffer(a, randomCells(size, draw)),
          writeBuffer(b, randomCells(size, draw + 1))>>

\* Buffers.createStateBuffers (part_000): both buffers get the same array
createStateBuffers(size, draw) ==
    LET data == randomCells(size, draw)
        a == createBuffer(data.len)
        b == createBuffer(data.len)
    IN  <<writeBuffer(a, data), writeBuffer(b, data)>>

\* createStateStorageBuffers (part_001): only buffer 0 is written
createStateStorageBuffers(size, draw) ==
    LET data == randomCells(size, draw)
        a == createBuffer(data.len)
        b == createBuffer(data.len)
    IN  <<writeBuffer(a, data), b>>

(***************************************************************************)
(* Bind groups: binding 0 is the grid uniform, binding 2 the read-only     *)
(* state buffer, binding 3 the writable one (indices into stateBuffers).   *)
(***************************************************************************)
createBindGroupsAliased(gridUniform) ==
    << [b0 |-> gridUniform, b2 |-> 0, b3 |-> 1],
       [b0 |-> gridUniform, b2 |-> 1, b3 |-> 1] >>

createBindGroupsSame(gridUniform) ==
    << [b0 |-> gridUniform, b2 |-> 0, b3 |-> 1],
       [b0 |-> gridUniform, b2 |-> 0, b3 |-> 1] >>

\* Simulation.createBindGroups (part_000)
createBindGroups(gridUniform) ==
    << [b0 |-> gridUniform, b2 |-> 0, b3 |-> 1],
       [b0 |-> gridUniform, b2 |-> 1, b3 |-> 0] >>

\* createBindGroups (part_001)
createBindGroups001(gridUniform) ==
    << [b0 |-> gridUniform, b2 |-> 0, b3 |-> 1],
       [b0 |-> gridUniform, b2 |-> 1, b3 |-> 0] >>

(***************************************************************************)
(* Renderer.                                                               *)
(***************************************************************************)
NoTick == [n |-> 0, t |-> 0, interval |-> 0, flipped |-> FALSE, before |-> 0,
           after |-> 0, computeIdx |-> 0, renderIdx |-> 0, writes |-> 0,
           reads |-> 0, grid |-> 0, workgroups |-> 0, instances |-> 0]

NewRendererAtNow ==
    [lastFrame |-> now, frameCount |-> 0, fps |-> 0,
     bindGroupIndex |-> 0, lastSwitch |-> now]

\* the field initialisers of Renderer
NewRenderer ==
    [lastFrame |-> 0, frameCount |-> 0, fps |-> 0,
     bindGroupIndex |-> 0, lastSwitch |-> 0]

updateFPSKeepCount(r, timeMs) ==
    LET lastFrame == IF r.lastFrame = 0 THEN timeMs ELSE r.lastFrame
        frameCount == r.frameCount + 1
    IN  IF timeMs - lastFrame >= FpsWindowMs
        THEN [r EXCEPT !.fps = frameCount, !.frameCount = frameCount,
                       !.lastFrame = timeMs]
        ELSE [r EXCEPT !.frameCount = frameCount, !.lastFrame = lastFrame]

\* Renderer.updateFPS (part_000) and Renderer.updateFpsCount (part_001)
updateFPS(r, timeMs) ==
    LET lastFrame == IF r.lastFrame = 0 THEN timeMs ELSE r.lastFrame
        frameCount == r.frameCount + 1
    IN  IF timeMs - lastFrame >= FpsWindowMs
        THEN [r EXCEPT !.fps = frameCount, !.frameCount = 0, !.lastFrame = timeMs]
        ELSE [r EXCEPT !.frameCount = frameCount, !.lastFrame = lastFrame]

ShouldFlipAlways(timeMs, lastSwitch, interval) == TRUE

ShouldFlipSinceZero(timeMs, lastSwitch, interval) == timeMs >= interval

\* the condition of the flip: timeMs - this.lastSwitch >= COMPUTE_MS_INTERVAL
ShouldFlip(timeMs, lastSwitch, interval) == timeMs - lastSwitch >= interval

NextIndexStuck(i) == (i + 2) % 2

\* (this.bindGroupIndex + 1) % 2
NextIndex(i) == (i + 1) % 2

\* the flip decision: the head of runComputePass (part_000) and
\* updateBindGroupIndex (part_001); the tick notes whether it flipped
updateBindGroupIndex(s, timeMs) ==
    IF ShouldFlip(timeMs, s.r.lastSwitch, COMPUTE_MS_INTERVAL)
    THEN [s EXCEPT !.r.bindGroupIndex = NextIndex(s.r.bindGroupIndex),
                   !.r.lastSwitch = timeMs,
                   !.tick.flipped = TRUE,
                   !.flips = s.flips + 1]
    ELSE s

ceilTruncating(n, d) == n \div d

\* Math.ceil(n / d) for positive n and d
ceil(n, d) == IF n % d = 0 THEN n \div d ELSE n \div d + 1

\* the compute pass recorded with bind group idx: the kernel overwrites the
\* buffer at binding 3; dispatchWorkgroups(count, count) with
\* count = Math.ceil(GRID_SIZE / 8)
computePass(s, idx) ==
    LET out == s.bindGroups[idx + 1].b3
    IN  [s EXCEPT !.stateBuffers[out + 1].data = Kernel,
                  !.tick.computeIdx = idx,
                  !.tick.writes = out,
                  !.tick.grid = GRID_SIZE,
                  !.tick.workgroups = ceil(GRID_SIZE, WorkgroupSize)]

\* the render pass recorded with bind group idx: reads the buffer at binding 2
renderPass(s, idx) ==
    [s EXCEPT !.tick.renderIdx = idx,
              !.tick.reads = s.bindGroups[idx + 1].b2,
              !.tick.instances = GRID_SIZE * GRID_SIZE]

\* what every tick notes about itself, whatever the variant
BeginTick(s, timeMs) ==
    [s EXCEPT !.tick = [NoTick EXCEPT !.n = s.tick.n + 1, !.t = timeMs,
                                      !.interval = COMPUTE_MS_INTERVAL,
                                      !.before = s.r.bindGroupIndex],
              !.firstT = IF s.ticksInWindow = 0 THEN timeMs ELSE s.firstT,
              !.lastT = timeMs,
              !.ticksInWindow = s.ticksInWindow + 1]

EndTick(s) == [s EXCEPT !.tick.after = s.r.bindGroupIndex]

\* Renderer.runComputePass (part_000)
runComputePass(s, timeMs) ==
    LET s1 == updateBindGroupIndex(s, timeMs)
    IN  computePass(s1, s1.r.bindGroupIndex)

\* Renderer.runRenderPass (part_000)
runRenderPass(s) == renderPass(s, s.r.bindGroupIndex)

\* Renderer.updateTimeBuffer: seconds = timeMs / 1000, kept in milliseconds
updateTimeBuffer(s, timeMs) == [s EXCEPT !.time = timeMs]

\* Renderer.render (part_000), up to the submit
render(s, timeMs) ==
    LET s0 == BeginTick(s, timeMs)
        s1 == [s0 EXCEPT !.r = updateFPS(s0.r, timeMs)]
        s2 == runComputePass(s1, timeMs)
        s3 == runRenderPass(s2)
        s4 == updateTimeBuffer(s3, timeMs)
    IN  EndTick(s4)

render001FlipFirst(s, timeMs) ==
    LET s0 == BeginTick(s, timeMs)
        s1 == updateBindGroupIndex(s0, timeMs)
        s2 == computePass(s1, s1.r.bindGroupIndex)
        s3 == [s2 EXCEPT !.r = updateFPS(s2.r, timeMs)]
        s4 == updateTimeBuffer(s3, timeMs)
        s5 == renderPass(s4, s4.r.bindGroupIndex)
    IN  EndTick(s5)

\* Renderer.render (part_001), up to the submit: the compute pass is recorded
\* first, then the index is updated, then the render pass is recorded
render001(s, timeMs) ==
    LET s0 == BeginTick(s, timeMs)
        s1 == computePass(s0, s0.r.bindGroupIndex)
        s2 == [s1 EXCEPT !.r = updateFPS(s1.r, timeMs)]
        s3 == updateTimeBuffer(s2, timeMs)
        s4 == updateBindGroupIndex(s3, timeMs)
        s5 == renderPass(s4, s4.r.bindGroupIndex)
    IN  EndTick(s5)

(***************************************************************************)
(* Sessions.                                                               *)
(***************************************************************************)
NoReset == [n |-> 0, cells |-> 0, writes |-> <<>>]

\* Engine.init up to its await: grid, time buffer and state buffers exist,
\* the Simulation and the Renderer do not yet
initBegin(gridSize, draw) ==
    [size |-> gridSize,
     gridUniform |-> gridSize,
     time |-> 0,
     stateBuffers |-> createStateBuffers(gridSize, draw),
     awaiting |-> TRUE,
     bindGroups |-> <<>>,
     r |-> NewRenderer,
     trigger |-> now,
     stopAt |-> -1,
     ticksInWindow |-> 0, flips |-> 0, firstT |-> 0, lastT |-> 0,
     tick |-> NoTick,
     resetLog |-> NoReset]

\* Engine.init after its await: new Simulation(...), new Renderer(...)
initResume(s) ==
    [s EXCEPT !.awaiting = FALSE,
              !.bindGroups = createBindGroups(s.gridUniform),
              !.r = NewRenderer]

\* init() of part_001, up to the first requestAnimationFrame
init001(draw) ==
    [size |-> GRID_SIZE,
     gridUniform |-> GRID_SIZE,
     time |-> 0,
     stateBuffers |-> createStateStorageBuffers(GRID_SIZE, draw),
     awaiting |-> FALSE,
     bindGroups |-> createBindGroups001(GRID_SIZE),
     r |-> NewRenderer,
     trigger |-> now,
     stopAt |-> -1,
     ticksInWindow |-> 0, flips |-> 0, firstT |-> 0, lastT |-> 0,
     tick |-> NoTick,
     resetLog |-> NoReset]

resetPerBuffer(s, size, draw) ==
    [s EXCEPT !.stateBuffers =
                 << writeBuffer(s.stateBuffers[1], randomCells(size, draw)),
                    writeBuffer(s.stateBuffers[2], randomCells(size, draw + 1)) >>,
              !.resetLog = [n |-> s.resetLog.n + 1, cells |-> size * size,
                            writes |-> <<draw, draw + 1>>]]

\* Simulation.reset(size): one array, written to every state buffer; the
\* session notes the writeBuffer calls made
reset(s, size, draw) ==
    LET data == randomCells(size, draw)
    IN  [s EXCEPT !.stateBuffers =
                     [i \in DOMAIN s.stateBuffers |->
                         writeBuffer(s.stateBuffers[i], data)],
                  !.resetLog = [n |-> s.resetLog.n + 1, cells |-> data.len,
                                writes |-> [i \in DOMAIN s.stateBuffers |->
                                              data.draw]]]

Live == {i \in DOMAIN sessions : ~sessions[i].awaiting}

(***************************************************************************)
(* Initial state: the page has loaded the script, nothing has run.         *)
(***************************************************************************)
Init ==
    /\ variant \in {"part_000", "part_001"}
    /\ started = FALSE
    /\ GRID_SIZE = InitialGridSize
    /\ COMPUTE_MS_INTERVAL = InitialInterval
    /\ now = 0
    /\ sessions = <<>>
    /\ simulation = 0
    /\ renderer = 0
    /\ animationFrameId = 0
    /\ rafQueue = {}
    /\ nextRafId = 1
    /\ drawCount = 0
    /\ uncaught = FALSE
    /\ frames = 0
    /\ inputs = 0
    /\ startPromise = "none"
    /\ reported = {}
    /\ unhandled = {}
    /\ failed = {}
    /\ timers = {}
    /\ timeout = 0
    /\ nextTimerId = 1
    /\ inputLog = <<>>
    /\ callLog = <<>>

(***************************************************************************)
(* Actions.                                                                *)
(***************************************************************************)
\* Engine.start (part_000): setup, device and canvas, the first init() up to
\* its await, then the reset and grid-size handlers are registered
Start ==
    /\ variant = "part_000"
    /\ ~started
    /\ startPromise = "none"
    /\ started' = TRUE
    /\ startPromise' = "fulfilled"
    /\ UNCHANGED <<reported, unhandled, failed>>
    /\ UNCHANGED debounceVars
    /\ drawCount' = drawCount + 1
    /\ sessions' = Append(sessions, initBegin(GRID_SIZE, drawCount + 1))
    /\ UNCHANGED <<variant, GRID_SIZE, COMPUTE_MS_INTERVAL, now, simulation,
                   renderer, animationFrameId, rafQueue, nextRafId,
                   uncaught, frames, inputs>>

\* Engine.init resumes after Promise.all: the Simulation and the Renderer are
\* built and assigned, the first frame is requested and its handle stored
InitResume(i) ==
    /\ variant = "part_000"
    /\ i \in DOMAIN sessions
    /\ sessions[i].awaiting
    /\ i \notin failed
    /\ sessions' = [sessions EXCEPT ![i] = initResume(sessions[i])]
    /\ UNCHANGED errorVars
    /\ UNCHANGED debounceVars
    /\ simulation' = i
    /\ renderer' = i
    /\ rafQueue' = rafQueue \cup {[id |-> nextRafId, target |-> i]}
    /\ animationFrameId' = nextRafId
    /\ nextRafId' = nextRafId + 1
    /\ UNCHANGED <<variant, started, GRID_SIZE, COMPUTE_MS_INTERVAL, now,
                   drawCount, uncaught, frames, inputs>>

\* init() of part_001
Init001 ==
    /\ variant = "part_001"
    /\ ~started
    /\ startPromise = "none"
    /\ started' = TRUE
    /\ startPromise' = "fulfilled"
    /\ UNCHANGED <<reported, unhandled, failed>>
    /\ UNCHANGED debounceVars
    /\ drawCount' = drawCount + 1
    /\ sessions' = <<init001(drawCount + 1)>>
    /\ rafQueue' = {[id |-> nextRafId, target |-> 1]}
    /\ nextRafId' = nextRafId + 1
    /\ UNCHANGED <<variant, GRID_SIZE, COMPUTE_MS_INTERVAL, now, simulation,
                   renderer, animationFrameId, uncaught, frames,
                   inputs>>

\* the tick of session i at timeMs, by the variant's Renderer.render
renderOf(s, timeMs) ==
    IF variant = "part_000" THEN render(s, timeMs) ELSE render001(s, timeMs)

\* One animation frame at time now + dt: the browser runs every callback that
\* was pending when the frame began, all with the frame's timestamp; each
\* render() submits and requests the next frame for its own Renderer, and the
\* handle that request returns is dropped
AnimationFrame(dt) ==
    /\ started
    /\ frames < MaxFrames
    /\ frames' = frames + 1
    /\ now' = now + dt
    /\ LET targets == {e.target : e \in rafQueue}
           rank(e) == Cardinality({f \in rafQueue : f.id < e.id})
       IN  /\ sessions' = [i \in DOMAIN sessions |->
                              IF i \in targets
                              THEN renderOf(sessions[i], now + dt)
                              ELSE sessions[i]]
           /\ rafQueue' = {[id |-> nextRafId + rank(e), target |-> e.target] :
                             e \in rafQueue}
           /\ nextRafId' = nextRafId + Cardinality(rafQueue)
    /\ UNCHANGED errorVars
    /\ UNCHANGED debounceVars
    /\ UNCHANGED <<variant, started, GRID_SIZE, COMPUTE_MS_INTERVAL, simulation,
                   renderer, animationFrameId, drawCount, uncaught,
                   inputs>>

\* Engine.stopRendering: the queue once the stored handle is cancelled
stopRendering ==
    IF animationFrameId # 0
    THEN {e \in rafQueue : e.id # animationFrameId}
    ELSE rafQueue

\* the callback Engine.start gives UIController.onGridSizeChange:
\* stopRendering, GRID_SIZE = newSize, init() up to its await
onGridSizeChangeCallback(newSize) ==
    /\ rafQueue' = stopRendering
    /\ animationFrameId' = 0
    /\ GRID_SIZE' = newSize
    /\ drawCount' = drawCount + 1
    /\ sessions' = Append(
              [i \in DOMAIN sessions |->
                  IF sessions[i].stopAt = -1
                  THEN [sessions[i] EXCEPT !.stopAt = sessions[i].tick.n]
                  ELSE sessions[i]],
              initBegin(newSize, drawCount + 1))
    /\ UNCHANGED errorVars
    /\ UNCHANGED <<variant, started, COMPUTE_MS_INTERVAL, now, simulation,
                   renderer, nextRafId, uncaught, frames>>

\* the grid-size slider has settled on newSize and its timer runs the callback
GridSizeChange(newSize) ==
    /\ variant = "part_000"
    /\ started
    /\ inputs < MaxInputs
    /\ inputs' = inputs + 1
    /\ onGridSizeChangeCallback(newSize)
    /\ UNCHANGED debounceVars

\* the callback Engine.start gives UIController.onReset:
\* this.simulation.reset(GRID_SIZE)
ResetClick ==
    /\ variant = "part_000"
    /\ started
    /\ inputs < MaxInputs
    /\ inputs' = inputs + 1
    /\ IF simulation = 0
       THEN /\ uncaught' = TRUE
            /\ UNCHANGED <<sessions, drawCount>>
       ELSE /\ drawCount' = drawCount + 1
            /\ sessions' = [sessions EXCEPT
                               ![simulation] = reset(sessions[simulation], GRID_SIZE, drawCount + 1)]
            /\ UNCHANGED uncaught
    /\ UNCHANGED errorVars
    /\ UNCHANGED debounceVars
    /\ UNCHANGED <<variant, started, GRID_SIZE, COMPUTE_MS_INTERVAL, now,
                   simulation, renderer, animationFrameId, rafQueue, nextRafId,
                   frames>>

\* the input listener of the compute-interval slider
IntervalInput(v) ==
    /\ started \/ startPromise = "rejected"
    /\ inputs < MaxInputs
    /\ inputs' = inputs + 1
    /\ COMPUTE_MS_INTERVAL' = v
    /\ sessions' = [i \in DOMAIN sessions |->
                       [sessions[i] EXCEPT !.ticksInWindow = 0, !.flips = 0]]
    /\ UNCHANGED errorVars
    /\ UNCHANGED debounceVars
    /\ UNCHANGED <<variant, started, GRID_SIZE, now, simulation, renderer,
                   animationFrameId, rafQueue, nextRafId, drawCount,
                   uncaught, frames>>

Next ==
    \/ Start
    \/ Init001
    \/ \E i \in DOMAIN sessions : InitResume(i)
    \/ \E dt \in FrameDeltas : AnimationFrame(dt)
    \/ \E n \in Sizes : GridSizeChange(n)
    \/ ResetClick
    \/ \E v \in Intervals : IntervalInput(v)

Spec == Init /\ [][Next]_vars

\* the initial state of the resizable variant
InitResizable == Init /\ variant = "part_000"

(***************************************************************************)
(* Fatal conditions.                                                       *)
(***************************************************************************)
\* the entry point rejects.  In part_000 Engine.start throws at one of its
\* awaits (getDevice, getCanvas) after UIController.setup and before init and
\* the handlers; in part_001 init() throws at any of its awaits, the pipeline
\* creations included.  The rejection reaches the .catch of the last line
StartFail(e) ==
    /\ ~started
    /\ startPromise = "none"
    /\ e \in StartErrors \cup (IF variant = "part_001" THEN InitErrors ELSE {})
    /\ startPromise' = "rejected"
    /\ reported' = reported \cup {e}
    /\ UNCHANGED <<variant, started, GRID_SIZE, COMPUTE_MS_INTERVAL, now,
                   sessions, simulation, renderer, animationFrameId, rafQueue,
                   nextRafId, drawCount, uncaught, frames, inputs, unhandled,
                   failed>>
    /\ UNCHANGED debounceVars

\* Engine.init rejects at its await (a pipeline creation has failed): the
\* promise init returned is the one Engine.start and the grid-size callback
\* dropped, so the rejection has no handler
InitFail(i, e) ==
    /\ variant = "part_000"
    /\ i \in DOMAIN sessions
    /\ sessions[i].awaiting
    /\ i \notin failed
    /\ failed' = failed \cup {i}
    /\ unhandled' = unhandled \cup {[session |-> i, error |-> e]}
    /\ UNCHANGED <<variant, started, GRID_SIZE, COMPUTE_MS_INTERVAL, now,
                   sessions, simulation, renderer, animationFrameId, rafQueue,
                   nextRafId, drawCount, uncaught, frames, inputs,
                   startPromise, reported>>
    /\ UNCHANGED debounceVars

NextWithFailures ==
    \/ Start
    \/ Init001
    \/ \E i \in DOMAIN sessions : InitResume(i)
    \/ \E dt \in FrameDeltas : AnimationFrame(dt)
    \/ \E n \in Sizes : GridSizeChange(n)
    \/ ResetClick
    \/ \E v \in Intervals : IntervalInput(v)
    \/ \E e \in StartErrors \cup InitErrors : StartFail(e)
    \/ \E i \in DOMAIN sessions : \E e \in InitErrors : InitFail(i, e)

SpecWithFailures == Init /\ [][NextWithFailures]_vars

(***************************************************************************)
(* The loop under every grid size of 1..MaxGridSize: the slider is moved    *)
(* once, to any of these sizes.                                            *)
(***************************************************************************)
NextSizes ==
    \/ Start
    \/ \E i \in DOMAIN sessions : InitResume(i)
    \/ \E dt \in FrameDeltas : AnimationFrame(dt)
    \/ \E n \in 1..MaxGridSize : inputs = 0 /\ GridSizeChange(n)

SpecSizes == InitResizable /\ [][NextSizes]_vars

(***************************************************************************)
(* The grid-size slider, one input event at a time                         *)
(* (UIController.onGridSizeChange).  Events carry the timestamp of the     *)
(* latest animation frame; a timer whose delay has elapsed runs before any *)
(* later input event or frame.                                             *)
(***************************************************************************)
clearTimeoutNothing(pending, handle) == pending

\* clearTimeout(handle): a handle that is undefined or has fired clears nothing
clearTimeout(pending, handle) == {e \in pending : e.id # handle}

\* setTimeout(() => callback(size), DebounceMs)
setTimeout(pending, id, size) ==
    pending \cup {[id |-> id, due |-> now + DebounceMs, size |-> size]}

TimerDue == \E e \in timers : e.due <= now

\* the slider's input listener
GridSizeInput(v) ==
    /\ variant = "part_000"
    /\ started
    /\ ~TimerDue
    /\ inputs < MaxInputs
    /\ inputs' = inputs + 1
    /\ timers' = setTimeout(clearTimeout(timers, timeout), nextTimerId, v)
    /\ timeout' = nextTimerId
    /\ nextTimerId' = nextTimerId + 1
    /\ inputLog' = Append(inputLog, [t |-> now, v |-> v])
    /\ UNCHANGED errorVars
    /\ UNCHANGED <<variant, started, GRID_SIZE, COMPUTE_MS_INTERVAL, now,
                   sessions, simulation, renderer, animationFrameId, rafQueue,
                   nextRafId, drawCount, uncaught, frames, callLog>>

\* a timer of the slider fires: callback(size)
GridSizeTimeout ==
    \E e \in timers :
        /\ e.due <= now
        /\ timers' = timers \ {e}
        /\ callLog' = Append(callLog, [t |-> now, v |-> e.size])
        /\ onGridSizeChangeCallback(e.size)
        /\ UNCHANGED <<inputs, timeout, nextTimerId, inputLog>>

NextDebounce ==
    \/ Start
    \/ \E i \in DOMAIN sessions : InitResume(i)
    \/ \E dt \in FrameDeltas : ~TimerDue /\ AnimationFrame(dt)
    \/ \E v \in SliderSizes : GridSizeInput(v)
    \/ GridSizeTimeout

SpecDebounce == InitResizable /\ [][NextDebounce]_vars

(***************************************************************************)
(* Properties.                                                             *)
(***************************************************************************)
\* the sessions whose Renderer has run at least one tick
Ticked == {i \in Live : sessions[i].tick.n > 0}

\* C1: in part_000 the state buffer a tick's compute pass writes (binding 3
\* of the bind group it selects) is never the state buffer the same tick's
\* render pass reads (binding 2 of the bind group it selects), on first ticks
\* and on flipping ticks as on all others.
C1_NonAliasing ==
    variant = "part_000" =>
        \A i \in Ticked : sessions[i].tick.writes # sessions[i].tick.reads

\* a session created by a grid-size change whose tick flipped the direction
C1_Witness ==
    /\ variant = "part_000"
    /\ \E i \in Ticked : i >= 2 /\ sessions[i].tick.flipped

\* C2 as stated: in both variants every tick takes the flip decision before
\* it records the compute pass, and its render pass selects the bind group
\* its compute pass selected.
C2_SameIndexInBothVariants ==
    \A i \in Ticked :
        /\ sessions[i].tick.computeIdx = sessions[i].tick.after
        /\ sessions[i].tick.renderIdx = sessions[i].tick.computeIdx

\* C2 amended: the render pass always selects the index the tick ends with;
\* in part_000 the compute pass selects that same index (the flip is decided
\* first), in part_001 the compute pass selects the index the tick began with
\* (the flip is decided between the two passes), so in part_001 the two
\* passes of a flipping tick select different bind groups.
C2_IndexPerVariant ==
    \A i \in Ticked :
        LET tick == sessions[i].tick
        IN  /\ tick.renderIdx = tick.after
            /\ variant = "part_000" => tick.computeIdx = tick.after
            /\ variant = "part_001" => tick.computeIdx = tick.before
            /\ tick.flipped <=> tick.after # tick.before

\* a flipping tick of part_001: its passes selected different bind groups
C2_Witness ==
    /\ variant = "part_001"
    /\ \E i \in Ticked :
          /\ sessions[i].tick.flipped
          /\ sessions[i].tick.computeIdx # sessions[i].tick.renderIdx

\* C3: once the grid-size callback has run, a Renderer that had rendered at
\* least one frame before it runs no further tick and has no frame callback
\* pending.
C3_OldLoopCancelled ==
    \A i \in DOMAIN sessions :
        sessions[i].stopAt >= 1 =>
            /\ sessions[i].tick.n = sessions[i].stopAt
            /\ \A e \in rafQueue : e.target # i

\* C4: every tick dispatches and draws with the grid size its Renderer's
\* state buffers and grid uniform were allocated with.
C4_TickUsesOwnGridSize ==
    \A i \in Ticked :
        LET s == sessions[i]
        IN  /\ s.tick.grid = s.size
            /\ s.tick.instances = s.size * s.size
            /\ \A k \in 1..2 : s.stateBuffers[k].cap = s.tick.grid * s.tick.grid
            /\ \A g \in 1..Len(s.bindGroups) : s.bindGroups[g].b0 = s.tick.grid

\* the span of the current tick stream of session i, and the interval it ran
\* under (the stream restarts when the interval slider moves)
StreamSpan(i) == sessions[i].lastT - sessions[i].firstT
Streaming == {i \in Live : sessions[i].ticksInWindow >= 1}

\* C5 as stated: over a tick stream spanning D under a fixed interval I the
\* number of flips is floor(D / I) - 1, floor(D / I) or floor(D / I) + 1.
C5_FlipCountWithinOne ==
    \A i \in Streaming :
        LET q == StreamSpan(i) \div COMPUTE_MS_INTERVAL
        IN  sessions[i].flips \in (q - 1)..(q + 1)

\* C5 amended: over a tick stream spanning D under a fixed interval I the
\* number of flips is at most floor(D / I) + 1 (and at most the number of
\* ticks); there is no lower bound of floor(D / I) - 1.
C5_FlipCountAtMost ==
    \A i \in Streaming :
        /\ sessions[i].flips <= (StreamSpan(i) \div COMPUTE_MS_INTERVAL) + 1
        /\ sessions[i].flips <= sessions[i].ticksInWindow

\* a stream of three ticks that flipped at least twice
C5_Witness ==
    \E i \in Streaming :
        sessions[i].ticksInWindow >= 3 /\ sessions[i].flips >= 2

\* C6 as stated: a session created by a grid-size change starts with
\* lastSwitch equal to the timestamp of the change, and its first tick flips
\* only if a full interval has passed since the change.
C6_ResetToTrigger ==
    \A i \in Live :
        i >= 2 =>
            LET s == sessions[i]
            IN  /\ s.tick.n = 0 => s.r.lastSwitch = s.trigger
                /\ (s.tick.n = 1 /\ s.tick.flipped) =>
                       s.tick.t - s.trigger >= s.tick.interval

\* C6 amended: a session created by a grid-size change starts with
\* lastSwitch, lastFrame, frameCount, fps and the direction all 0; its first
\* tick, at timestamp T, flips exactly when T >= COMPUTE_MS_INTERVAL, whatever
\* time has passed since the change, and starts the FPS window at T.
C6_ResetToZero ==
    \A i \in Live :
        i >= 2 =>
            LET s == sessions[i]
            IN  /\ s.tick.n = 0 =>
                     /\ s.r.lastSwitch = 0 /\ s.r.lastFrame = 0
                     /\ s.r.frameCount = 0 /\ s.r.fps = 0
                     /\ s.r.bindGroupIndex = 0
                /\ s.tick.n = 1 =>
                     /\ s.tick.flipped <=> s.tick.t >= s.tick.interval
                     /\ s.r.lastFrame = s.tick.t
                     /\ s.r.frameCount = 1

\* a first tick that flipped although less than an interval had passed since
\* the grid-size change that created its session
C6_Witness ==
    \E i \in Live :
        /\ i >= 2
        /\ sessions[i].tick.n = 1
        /\ sessions[i].tick.flipped
        /\ sessions[i].tick.t - sessions[i].trigger < sessions[i].tick.interval

\* C7: every reset writes exactly as many cells as the state buffers of the
\* simulation it is applied to were allocated with.
C7_ResetPreservesDimensions ==
    \A i \in DOMAIN sessions :
        sessions[i].resetLog.n > 0 =>
            \A k \in 1..2 :
                sessions[i].resetLog.cells = sessions[i].stateBuffers[k].cap

\* C8: a reset hands one and the same fresh array to the write of each of
\* the two state buffers (a buffer the array fits holds it afterwards) and
\* changes nothing else: not the Renderer's fields, the bind groups, the grid
\* uniform, GRID_SIZE, the interval, the pending frame callbacks, the stored
\* handle, nor any other session.
C8_ResetTouchesOnlyBuffers ==
    [][\A i \in DOMAIN sessions :
          sessions'[i].resetLog # sessions[i].resetLog =>
              LET s == sessions[i]
                  t == sessions'[i]
              IN  /\ t.resetLog.n = s.resetLog.n + 1
                  /\ Len(t.resetLog.writes) = 2
                  /\ t.resetLog.writes[1] = t.resetLog.writes[2]
                  /\ t.resetLog.writes[1] = drawCount'
                  /\ drawCount' = drawCount + 1
                  /\ \A k \in 1..2 :
                        /\ t.stateBuffers[k].cap = s.stateBuffers[k].cap
                        /\ t.resetLog.cells <= s.stateBuffers[k].cap =>
                              t.stateBuffers[k].data = t.resetLog.writes[k]
                  /\ t.r = s.r
                  /\ t.bindGroups = s.bindGroups
                  /\ t.gridUniform = s.gridUniform
                  /\ t.size = s.size
                  /\ t.time = s.time
                  /\ t.tick = s.tick
                  /\ t.awaiting = s.awaiting
                  /\ \A j \in DOMAIN sessions : j # i => sessions'[j] = sessions[j]
                  /\ DOMAIN sessions' = DOMAIN sessions
                  /\ GRID_SIZE' = GRID_SIZE
                  /\ COMPUTE_MS_INTERVAL' = COMPUTE_MS_INTERVAL
                  /\ rafQueue' = rafQueue
                  /\ animationFrameId' = animationFrameId
                  /\ simulation' = simulation
                  /\ renderer' = renderer
                  /\ now' = now
      ]_vars

\* a reset has been applied to a simulation whose Renderer has flipped and
\* has a frame pending
C8_Witness ==
    \E i \in Ticked :
        /\ sessions[i].resetLog.n > 0
        /\ sessions[i].r.bindGroupIndex = 1
        /\ \E e \in rafQueue : e.target = i
        /\ sessions[i].stateBuffers[1].data = sessions[i].stateBuffers[2].data
        /\ sessions[i].stateBuffers[1].data = sessions[i].resetLog.writes[1]

\* C9: in every session of either variant the two bind groups mirror each
\* other over the two state buffers: group 0 reads buffer 0 and writes buffer
\* 1, group 1 reads buffer 1 and writes buffer 0, and no group reads the
\* buffer it writes.
C9_MirroredBindGroups ==
    \A i \in Live :
        LET g == sessions[i].bindGroups
        IN  /\ Len(g) = 2
            /\ Len(sessions[i].stateBuffers) = 2
            /\ g[1].b2 = 0 /\ g[1].b3 = 1
            /\ g[2].b2 = 1 /\ g[2].b3 = 0
            /\ \A k \in 1..2 : g[k].b2 # g[k].b3

\* the session of a grid-size change has built its bind groups
C9_Witness ==
    \E i \in Live : i >= 2 /\ Len(sessions[i].bindGroups) = 2

\* C10: the direction of a Renderer is 0 or 1, is 0 until its first tick, is
\* the other value after a tick that flips and the same value after a tick
\* that does not; nothing but a tick changes it, so consecutive flips
\* alternate.
C10_Alternation ==
    \A i \in Live :
        LET s == sessions[i]
        IN  /\ s.r.bindGroupIndex \in {0, 1}
            /\ s.tick.n = 0 => s.r.bindGroupIndex = 0
            /\ s.tick.n > 0 =>
                 /\ s.r.bindGroupIndex = s.tick.after
                 /\ s.tick.flipped => s.tick.after = 1 - s.tick.before
                 /\ ~s.tick.flipped => s.tick.after = s.tick.before

\* a Renderer that has flipped twice: it is back at direction 0 after a flip
C10_Witness ==
    \E i \in Ticked :
        /\ sessions[i].flips >= 2
        /\ sessions[i].tick.flipped
        /\ sessions[i].r.bindGroupIndex = 0

\* the sessions as their construction left them: no tick has run on their
\* buffers and no reset has rewritten them
Fresh == {i \in DOMAIN sessions :
             sessions[i].tick.n = 0 /\ sessions[i].resetLog.n = 0}

\* C11 as stated: in each variant, immediately after construction both state
\* buffers hold the same initial random draw.
C11_BothBuffersSameDraw ==
    \A i \in Fresh :
        /\ sessions[i].stateBuffers[1].data >= 1
        /\ sessions[i].stateBuffers[2].data = sessions[i].stateBuffers[1].data

\* C11 amended: after construction state buffer 0 holds one random draw that
\* fills it; in part_000 state buffer 1 holds the same draw, in part_001 state
\* buffer 1 has not been written and holds the zeros it was created with.
C11_InitialFillPerVariant ==
    \A i \in Fresh :
        LET a == sessions[i].stateBuffers[1]
            b == sessions[i].stateBuffers[2]
        IN  /\ a.data >= 1
            /\ a.written = a.cap
            /\ a.cap = sessions[i].size * sessions[i].size
            /\ b.cap = a.cap
            /\ variant = "part_000" => b.data = a.data /\ b.written = b.cap
            /\ variant = "part_001" => b.data = Zero /\ b.written = 0

\* a session a grid-size change constructed, before its first tick
C11_Witness ==
    /\ variant = "part_000"
    /\ \E i \in Fresh : i >= 2 /\ i \in Live /\ sessions[i].size # InitialGridSize

\* C12: every fatal condition reaches the top-level driver and is reported:
\* when the entry point or a session's initialisation (at startup or after a
\* grid-size change) has failed, the error is one the top-level catch handler
\* has logged, no rejection is left without a handler, and no tick is
\* scheduled or run for the failed session.
C12_FatalErrorsReported ==
    /\ startPromise = "rejected" => reported # {}
    /\ \A u \in unhandled : u.error \in reported
    /\ \A i \in failed :
          /\ sessions[i].tick.n = 0
          /\ \A e \in rafQueue : e.target # i

\* C13: on a tick at timestamp T the direction is flipped if and only if
\* T - lastSwitch >= COMPUTE_MS_INTERVAL, with the interval's value at that
\* tick; a flipping tick sets lastSwitch to T, a tick that does not flip
\* leaves direction and lastSwitch as they were; a step that changes
\* COMPUTE_MS_INTERVAL changes neither the direction nor lastSwitch of any
\* Renderer.
C13_FlipRule ==
    [][\A i \in DOMAIN sessions :
          LET r == sessions[i].r
              r2 == sessions'[i].r
              T == now'
          IN  /\ sessions'[i].tick.n = sessions[i].tick.n + 1 =>
                    /\ sessions'[i].tick.t = T
                    /\ sessions'[i].tick.interval = COMPUTE_MS_INTERVAL
                    /\ COMPUTE_MS_INTERVAL' = COMPUTE_MS_INTERVAL
                    /\ IF T - r.lastSwitch >= COMPUTE_MS_INTERVAL
                       THEN /\ r2.bindGroupIndex = 1 - r.bindGroupIndex
                            /\ r2.lastSwitch = T
                       ELSE /\ r2.bindGroupIndex = r.bindGroupIndex
                            /\ r2.lastSwitch = r.lastSwitch
              /\ COMPUTE_MS_INTERVAL' # COMPUTE_MS_INTERVAL =>
                    /\ r2.bindGroupIndex = r.bindGroupIndex
                    /\ r2.lastSwitch = r.lastSwitch
      ]_vars

\* a Renderer that has flipped, has then seen the slider change the interval,
\* and has flipped again on a tick that used the slider's value
C13_Witness ==
    \E i \in Ticked :
        /\ sessions[i].tick.n >= 2
        /\ sessions[i].tick.interval \in Intervals
        /\ sessions[i].tick.interval # InitialInterval
        /\ sessions[i].tick.before # sessions[i].tick.after
        /\ sessions[i].r.lastSwitch = sessions[i].tick.t
        /\ sessions[i].flips = 1
        /\ sessions[i].ticksInWindow = 1

\* the input events that end a burst: the last event, and every event the
\* next one follows by DebounceMs or more
BurstEnds ==
    {k \in 1..Len(inputLog) :
        k = Len(inputLog) \/ inputLog[k + 1].t - inputLog[k].t >= DebounceMs}

\* the j-th burst end, in event order
BurstEnd(j) == CHOOSE k \in BurstEnds : Cardinality({m \in BurstEnds : m <= k}) = j

\* C14: the grid-size callback is invoked only once DebounceMs have passed
\* with no further input of the slider; every burst of input events in which
\* each event follows the previous one by less than DebounceMs triggers
\* exactly one call, after the burst's last event and with that event's
\* value.  The last burst has either had its call or has its one timer
\* pending, due DebounceMs after its last event and carrying its value.
C14_Debounce ==
    LET bursts == Cardinality(BurstEnds)
        calls == Len(callLog)
    IN  /\ calls \in {bursts - 1, bursts} \cap Nat
        /\ \A j \in 1..calls :
              LET k == BurstEnd(j)
              IN  /\ callLog[j].v = inputLog[k].v
                  /\ callLog[j].t >= inputLog[k].t + DebounceMs
                  /\ k < Len(inputLog) => callLog[j].t <= inputLog[k + 1].t
        /\ calls = bursts => timers = {}
        /\ calls < bursts =>
              /\ Cardinality(timers) = 1
              /\ \A e \in timers :
                    /\ e.size = inputLog[Len(inputLog)].v
                    /\ e.due = inputLog[Len(inputLog)].t + DebounceMs

\* a burst of two events with different values, 60 ms apart, has had its call
C14_Witness ==
    /\ Len(inputLog) = 2
    /\ inputLog[2].t > inputLog[1].t
    /\ inputLog[2].t - inputLog[1].t < DebounceMs
    /\ inputLog[2].v # inputLog[1].v
    /\ Len(callLog) = 1
    /\ GRID_SIZE = inputLog[2].v

\* C15: with N the grid size a tick uses, the tick's compute pass dispatches w
\* workgroups along each axis with WorkgroupSize * w >= N and
\* WorkgroupSize * (w - 1) < N, that is w = ceil(N / 8): tiles of 8 cells cover
\* every cell of each axis and no row or column of tiles lies wholly outside
\* the grid; the tick's render pass draws exactly N * N instances.
C15_DispatchCoverage ==
    \A i \in Ticked :
        LET N == sessions[i].tick.grid
            w == sessions[i].tick.workgroups
        IN  /\ N >= 1
            /\ WorkgroupSize * w >= N
            /\ WorkgroupSize * (w - 1) < N
            /\ sessions[i].tick.instances = N * N

\* a tick with a grid size that is not a multiple of 8 and is larger than 8
C15_Witness ==
    \E i \in Ticked :
        /\ sessions[i].tick.grid % WorkgroupSize # 0
        /\ sessions[i].tick.grid > WorkgroupSize
        /\ sessions[i].tick.workgroups = 2

\* C16: every tick counts one frame.  The window starts at the Renderer's
\* first tick.  On a tick at timestamp T with T - window start >= FpsWindowMs
\* the fps becomes the number of ticks counted since the previous sample, this
\* tick included, the counter returns to 0 and the window starts again at T;
\* on any other tick the fps keeps its value and the counter has grown by one.
\* The sampling touches neither the direction nor lastSwitch: a tick changes
\* them only by the flip rule.
C16_FpsSampling ==
    [][\A i \in DOMAIN sessions :
          sessions'[i].tick.n = sessions[i].tick.n + 1 =>
              LET r == sessions[i].r
                  r2 == sessions'[i].r
                  T == now'
                  windowStart == IF r.lastFrame = 0 THEN T ELSE r.lastFrame
              IN  /\ IF T - windowStart >= FpsWindowMs
                     THEN /\ r2.fps = r.frameCount + 1
                          /\ r2.frameCount = 0
                          /\ r2.lastFrame = T
                     ELSE /\ r2.fps = r.fps
                          /\ r2.frameCount = r.frameCount + 1
                          /\ r2.lastFrame = windowStart
                  /\ \/ /\ r2.bindGroupIndex = r.bindGroupIndex
                        /\ r2.lastSwitch = r.lastSwitch
                     \/ /\ T - r.lastSwitch >= COMPUTE_MS_INTERVAL
                        /\ r2.bindGroupIndex = 1 - r.bindGroupIndex
                        /\ r2.lastSwitch = T
      ]_vars

\* a Renderer whose third tick, 1000 ms after its first, has sampled 3 fps
C16_Witness ==
    \E i \in Ticked :
        /\ sessions[i].tick.n = 3
        /\ sessions[i].r.fps = 3
        /\ sessions[i].r.frameCount = 0
        /\ sessions[i].r.lastFrame = sessions[i].tick.t
        /\ sessions[i].lastT - sessions[i].trigger >= FpsWindowMs

\* C17: in part_000, once every init() that was called has completed, the
\* Engine's simulation and renderer are those of the latest call, built for
\* the size requested last, which is GRID_SIZE; the reset handler acts on them.
C17_LatestRequestWins ==
    (/\ variant = "part_000"
     /\ sessions # <<>>
     /\ \A i \in DOMAIN sessions : ~sessions[i].awaiting) =>
        /\ simulation = Len(sessions)
        /\ renderer = Len(sessions)
        /\ sessions[simulation].size = GRID_SIZE

====
